---- MODULE Spec2Model ----
(***************************************************************************)
(* A model of the multiband compressor engine (src/src/lib.rs, the same    *)
(* engine code as the split variant src/src/processor.rs), its Biquad      *)
(* (src/src/biquad.rs) and its band compressor (src/src/compression.rs).   *)
(*                                                                         *)
(* Number representation.  The engine computes in f32.  The model keeps    *)
(* every f32 quantity in fixed point:                                      *)
(*   frequencies        in quarter Hz        (FreqScale units per Hz)      *)
(*   sample amplitudes  in 1/AmpScale        (1.0 = AmpScale)              *)
(*   filter coefficients in 1/CoefScale                                   *)
(*   levels in dB       in 1/DbScale dB                                    *)
(*   smoothing weights  in 1/WeightScale                                   *)
(* A product is rounded down to the grid (MulDiv).  Sample rates are in Hz.*)
(***************************************************************************)
EXTENDS Integers, Sequences, FiniteSets, TLC

FreqScale == 4
AmpScale == 1024
CoefScale == 4096
AngleScale == 8192
DbScale == 100
WeightScale == 65536

Abs(x) == IF x < 0 THEN -x ELSE x
Max(a, b) == IF a >= b THEN a ELSE b
Min(a, b) == IF a <= b THEN a ELSE b

\* a*b/s on the fixed-point grid
MulDiv(a, b, s) == (a * b) \div s

RECURSIVE FloorLog2(_)
FloorLog2(n) == IF n <= 1 THEN 0 ELSE 1 + FloorLog2(n \div 2)

RECURSIVE TwoTo(_)
TwoTo(k) == IF k <= 0 THEN 1 ELSE 2 * TwoTo(k - 1)

(***************************************************************************)
(* Biquad, src/src/biquad.rs                                               *)
(***************************************************************************)

\* f32::sin of an angle x = pi*t, 0 <= t <= 1, t given in 1/AngleScale;
\* the result in 1/CoefScale (rational approximation of the library sine)
SinPi(t) ==
    LET p == (t * (AngleScale - t)) \div AngleScale
    IN  (16 * p * CoefScale) \div (5 * AngleScale - 4 * p)

\* f32::cos of the same angle
CosPi(t) ==
    IF 2 * t <= AngleScale
    THEN SinPi(t + AngleScale \div 2)
    ELSE -SinPi(t - AngleScale \div 2)

\* omega = 2*pi*freq/sr as a fraction of pi (freq in quarter Hz, sr in Hz)
Omega(freq, sr) == (freq * AngleScale) \div (2 * sr)

\* q = 1/sqrt(2) in 1/CoefScale
ButterworthQ == 2896

\* faulty variant of Biquad::new: the unit gain sits on the delayed tap
BiquadNewDelayed ==
    [b0 |-> 0, b1 |-> CoefScale, b2 |-> 0, a1 |-> 0, a2 |-> 0, z1 |-> 0, z2 |-> 0]

BiquadNew ==
    [b0 |-> CoefScale, b1 |-> 0, b2 |-> 0, a1 |-> 0, a2 |-> 0, z1 |-> 0, z2 |-> 0]

set_lowpass(freq, sr) ==
    LET omega == Omega(freq, sr)
        cosw == CosPi(omega)
        sinw == SinPi(omega)
        alpha == (sinw * CoefScale) \div (2 * ButterworthQ)
        b0 == (CoefScale - cosw) \div 2
        b1 == CoefScale - cosw
        b2 == (CoefScale - cosw) \div 2
        a0 == CoefScale + alpha
    IN  [b0 |-> MulDiv(b0, CoefScale, a0),
         b1 |-> MulDiv(b1, CoefScale, a0),
         b2 |-> MulDiv(b2, CoefScale, a0),
         a1 |-> MulDiv(-2 * cosw, CoefScale, a0),
         a2 |-> MulDiv(CoefScale - alpha, CoefScale, a0),
         z1 |-> 0,
         z2 |-> 0]

set_highpass(freq, sr) ==
    LET omega == Omega(freq, sr)
        cosw == CosPi(omega)
        sinw == SinPi(omega)
        alpha == (sinw * CoefScale) \div (2 * ButterworthQ)
        b0 == (CoefScale + cosw) \div 2
        b1 == -(CoefScale + cosw)
        b2 == (CoefScale + cosw) \div 2
        a0 == CoefScale + alpha
    IN  [b0 |-> MulDiv(b0, CoefScale, a0),
         b1 |-> MulDiv(b1, CoefScale, a0),
         b2 |-> MulDiv(b2, CoefScale, a0),
         a1 |-> MulDiv(-2 * cosw, CoefScale, a0),
         a2 |-> MulDiv(CoefScale - alpha, CoefScale, a0),
         z1 |-> 0,
         z2 |-> 0]

\* Direct Form II Transposed; returns the stepped biquad and the output y
biquad_process_sample(bq, x) ==
    LET y == MulDiv(bq.b0, x, CoefScale) + bq.z1
    IN  [bq |-> [bq EXCEPT
                   !.z1 = MulDiv(bq.b1, x, CoefScale) - MulDiv(bq.a1, y, CoefScale) + bq.z2,
                   !.z2 = MulDiv(bq.b2, x, CoefScale) - MulDiv(bq.a2, y, CoefScale)],
         y |-> y]

Coefs(bq) == <<bq.b0, bq.b1, bq.b2, bq.a1, bq.a2>>

(***************************************************************************)
(* Crossover filters of one channel and the frequency-update policy        *)
(***************************************************************************)

ChannelFiltersNew ==
    [low_lp  |-> <<BiquadNew, BiquadNew>>,
     mid_hp  |-> <<BiquadNew, BiquadNew>>,
     mid_lp  |-> <<BiquadNew, BiquadNew>>,
     high_hp |-> <<BiquadNew, BiquadNew>>]

\* the filters of one channel as designed by a recomputation
DesignedFilters(low_freq, high_freq, sr) ==
    [low_lp  |-> <<set_lowpass(low_freq, sr), set_lowpass(low_freq, sr)>>,
     mid_hp  |-> <<set_highpass(low_freq, sr), set_highpass(low_freq, sr)>>,
     mid_lp  |-> <<set_lowpass(high_freq, sr), set_lowpass(high_freq, sr)>>,
     high_hp |-> <<set_highpass(high_freq, sr), set_highpass(high_freq, sr)>>]

\* 0.5 Hz
HysteresisHz == 2
\* 10.0 Hz
MinLowFreq == 40
\* 10.0 Hz
MinSeparation == 40

\* faulty variants of the hysteresis test: any change counts; 0.5 Hz counts
ExceedsAnyChange(x, current) == x # current
ExceedsOrReaches(x, current) == Abs(x - current) >= HysteresisHz

\* (x - current).abs() > 0.5
\* faulty variant of the threshold test: a dead band of 1 Hz
ExceedsTwice(x, current) == Abs(x - current) > 2 * HysteresisHz

ExceedsHysteresis(x, current) == Abs(x - current) > HysteresisHz

\* faulty variant of the upper bound of high_freq: nyquist itself
HighFreqMaxNyquist(sr) == (sr * FreqScale) \div 2

\* faulty variant of the upper bound of low_freq: nyquist itself
LowFreqMaxNyquist(sr) == (sr * FreqScale) \div 2

\* nyquist * 0.8 and nyquist * 0.99, nyquist = sample_rate * 0.5
LowFreqMax(sr) == (sr * FreqScale * 8) \div 20
HighFreqMax(sr) == (sr * FreqScale * 99) \div 200

\* faulty variant of clamp: the lower bound is not applied
ClampAbove(x, lo, hi) == IF x > hi THEN hi ELSE x

\* f32::clamp: the value; it panics when min > max (ClampPanics)
Clamp(x, lo, hi) == IF x < lo THEN lo ELSE IF x > hi THEN hi ELSE x
ClampPanics(lo, hi) == lo > hi

LowFreq(cur_lo, sr) == Clamp(cur_lo, MinLowFreq, LowFreqMax(sr))
HighFreq(cur_hi, low_freq, sr) == Clamp(cur_hi, low_freq + MinSeparation, HighFreqMax(sr))

\* faulty variant: only the cascades of a frequency that moved are redesigned
RedesignMoved(old, designed, lo_moved, hi_moved) ==
    [low_lp  |-> IF lo_moved THEN designed.low_lp ELSE old.low_lp,
     mid_hp  |-> IF lo_moved THEN designed.mid_hp ELSE old.mid_hp,
     mid_lp  |-> IF hi_moved THEN designed.mid_lp ELSE old.mid_lp,
     high_hp |-> IF hi_moved THEN designed.high_hp ELSE old.high_hp]

\* the filters of a channel after a recomputation: the four loops of
\* update_crossovers run over all four cascades whichever frequency moved
RedesignAll(old, designed, lo_moved, hi_moved) == designed

\* update_crossovers on (requested lo, requested hi, cache, sample rate, bank):
\* the new cache, whether it recomputed, the frequencies it designed for,
\* whether a clamp panicked, and the new bank
update_crossovers(lo_mid, mid_hi, cur_lo, cur_hi, sr, flt) ==
    LET new_lo == IF ExceedsHysteresis(lo_mid, cur_lo) THEN lo_mid ELSE cur_lo
        new_hi == IF ExceedsHysteresis(mid_hi, cur_hi) THEN mid_hi ELSE cur_hi
        needs_update == ExceedsHysteresis(lo_mid, cur_lo) \/ ExceedsHysteresis(mid_hi, cur_hi)
        low_freq == LowFreq(new_lo, sr)
        high_freq == HighFreq(new_hi, low_freq, sr)
        panics == needs_update /\
                  (ClampPanics(MinLowFreq, LowFreqMax(sr))
                   \/ ClampPanics(low_freq + MinSeparation, HighFreqMax(sr)))
    IN  [current_lo_mid |-> new_lo,
         current_mid_hi |-> new_hi,
         needs_update |-> needs_update,
         panics |-> panics,
         low_freq |-> low_freq,
         high_freq |-> high_freq,
         filters |-> IF needs_update /\ ~panics
                     THEN [ch \in DOMAIN flt |->
                              RedesignAll(flt[ch], DesignedFilters(low_freq, high_freq, sr),
                                          ExceedsHysteresis(lo_mid, cur_lo),
                                          ExceedsHysteresis(mid_hi, cur_hi))]
                     ELSE flt]

(***************************************************************************)
(* Band compressor, src/src/compression.rs (BandCompressor in lib.rs)      *)
(***************************************************************************)

\* util::MINUS_INFINITY_DB = -100 dB
MINUS_INFINITY_DB == -10000
\* 20*log10(2) dB, the level step of one doubling of the gain
DbPerOctave == 602
\* log2(AmpScale)
AmpBits == 10
\* log2(e) in 1/CoefScale
Log2E == 5909
\* seconds in units of 0.1 ms
TimeScale == 10000
RatioScale == 10

\* util::gain_to_db for a gain > 0 (in 1/AmpScale): 20*log10(gain), the
\* logarithm interpolated linearly inside each octave
gain_to_db(gain) ==
    LET k == FloorLog2(gain)
        p == TwoTo(k)
    IN  DbPerOctave * (k - AmpBits) + (DbPerOctave * (gain - p)) \div p

\* faulty variant of db_to_gain: the straight line 1 + dbs/20
db_to_gain_linear(dbs) == (AmpScale * (20 * DbScale + dbs)) \div (20 * DbScale)

\* util::db_to_gain: 10^(dbs/20) above MINUS_INFINITY_DB, else 0
db_to_gain(dbs) ==
    IF dbs > MINUS_INFINITY_DB
    THEN LET k == dbs \div DbPerOctave
             r == dbs - DbPerOctave * k
             m == (AmpScale * (DbPerOctave + r)) \div DbPerOctave
         IN  IF k >= 0 THEN m * TwoTo(k) ELSE m \div TwoTo(-k)
    ELSE 0

\* f32::exp(-num/den) in 1/CoefScale, for num/den > 0
ExpNeg(num, den) ==
    LET y == (num * Log2E) \div den
        k == y \div CoefScale
        r == y - CoefScale * k
    IN  Min(CoefScale - 1, (CoefScale - r \div 2) \div TwoTo(k))

SingleBandCompressorNew == [envelope |-> MINUS_INFINITY_DB, gain_reduction_db |-> 0]

\* faulty variant of the smoothing: the step taken away from the state,
\* target + (target - state)*coef
SmoothPastTarget(state, target, coef) ==
    target + MulDiv(target - state, coef, CoefScale)

\* one-pole smoothing  state*coef + target*(1 - coef)
Smooth(state, target, coef) ==
    MulDiv(state, coef, CoefScale) + MulDiv(target, CoefScale - coef, CoefScale)

\* faulty variant: the whole excess over the threshold is removed
SlopeLimiter(ratio) == IF ratio > RatioScale THEN CoefScale ELSE 0

\* faulty variant: 1/ratio where 1 - 1/ratio belongs
SlopeReciprocal(ratio) == (CoefScale * RatioScale) \div Max(ratio, RatioScale)

\* 1 - 1/ratio.max(1) in 1/CoefScale
Slope(ratio) == CoefScale - (CoefScale * RatioScale) \div Max(ratio, RatioScale)

\* faulty variant: no gate at the threshold, the slope applies below it too
TargetUngated(envelope, settings) ==
    -MulDiv(envelope - settings.threshold_db, Slope(settings.ratio), CoefScale)

\* faulty variant: the excess over the threshold taken as a boost
TargetBoost(envelope, settings) ==
    IF envelope > settings.threshold_db
    THEN MulDiv(envelope - settings.threshold_db, Slope(settings.ratio), CoefScale)
    ELSE 0

TargetReduction(envelope, settings) ==
    IF envelope > settings.threshold_db
    THEN -MulDiv(envelope - settings.threshold_db, Slope(settings.ratio), CoefScale)
    ELSE 0

\* the level of a sample in dB, silence at MINUS_INFINITY_DB
InputDb(input) ==
    LET input_abs == Abs(input)
    IN  IF input_abs > 0 THEN gain_to_db(input_abs) ELSE MINUS_INFINITY_DB

\* faulty variant of process_sample: the gain smoothing takes the coefficient
\* of the branch the envelope update took
compressor_process_sample_coupled(c, input, settings) ==
    LET input_db == InputDb(input)
        envelope == IF input_db > c.envelope
                    THEN Smooth(c.envelope, input_db, settings.attack_coef)
                    ELSE Smooth(c.envelope, input_db, settings.release_coef)
        target_reduction_db == TargetReduction(envelope, settings)
        gain_reduction_db ==
            IF input_db > c.envelope
            THEN Smooth(c.gain_reduction_db, target_reduction_db, settings.attack_coef)
            ELSE Smooth(c.gain_reduction_db, target_reduction_db, settings.release_coef)
        total_gain == db_to_gain(gain_reduction_db + settings.makeup_db)
    IN  [c |-> [envelope |-> envelope, gain_reduction_db |-> gain_reduction_db],
         out |-> MulDiv(input, total_gain, AmpScale)]

\* SingleBandCompressor::process_sample: the stepped compressor and the output
compressor_process_sample(c, input, settings) ==
    LET input_db == InputDb(input)
        envelope == IF input_db > c.envelope
                    THEN Smooth(c.envelope, input_db, settings.attack_coef)
                    ELSE Smooth(c.envelope, input_db, settings.release_coef)
        target_reduction_db == TargetReduction(envelope, settings)
        gain_reduction_db ==
            IF target_reduction_db < c.gain_reduction_db
            THEN Smooth(c.gain_reduction_db, target_reduction_db, settings.attack_coef)
            ELSE Smooth(c.gain_reduction_db, target_reduction_db, settings.release_coef)
        total_gain == db_to_gain(gain_reduction_db + settings.makeup_db)
    IN  [c |-> [envelope |-> envelope, gain_reduction_db |-> gain_reduction_db],
         out |-> MulDiv(input, total_gain, AmpScale)]

(***************************************************************************)
(* Parameters                                                              *)
(***************************************************************************)

\* resolved values of one band's five parameters (params.rs): threshold in
\* dB, ratio in tenths, attack and release in 0.1 ms, makeup in dB
BandDefaults ==
    <<[threshold |-> -1200, ratio |-> 20, attack |-> 200, release |-> 1500, makeup |-> 0],
      [threshold |-> -1000, ratio |-> 30, attack |-> 100, release |-> 1000, makeup |-> 0],
      [threshold |-> -800,  ratio |-> 40, attack |-> 50,  release |-> 800,  makeup |-> 0]>>

\* the fastest, hardest setting the parameter ranges allow, with makeup gain
BandExtremes ==
    <<[threshold |-> -6000, ratio |-> 200, attack |-> 1, release |-> 100, makeup |-> 600],
      [threshold |-> 0,     ratio |-> 10,  attack |-> 1, release |-> 100, makeup |-> 0],
      [threshold |-> -1200, ratio |-> 40,  attack |-> 1, release |-> 100, makeup |-> 0]>>

BandParamChoices == {BandDefaults, BandExtremes}

\* values outside the ranges the parameters declare: ratios below 1, attack
\* and release times of zero and below
BandOutOfRange ==
    <<[threshold |-> -3000, ratio |-> 5, attack |-> 0,   release |-> -10, makeup |-> 0],
      [threshold |-> -3000, ratio |-> 0, attack |-> -10, release |-> 0,   makeup |-> 0],
      [threshold |-> -3000, ratio |-> -10, attack |-> 0, release |-> 0,   makeup |-> 600]>>

\* xover_lo_mid (40..1000 Hz, default 200) and xover_mid_hi (500..8000 Hz,
\* default 2000), in quarter Hz
XoverLoMidDefault == 800
XoverMidHiDefault == 8000
\* crossover values in small steps around the defaults (200.5 Hz, 200.75 Hz), and
\* the top of the mid/high range (8000 Hz)
XoverLoMidFine == {800, 802, 803}
XoverMidHiFine == {8000, 32000}
\* requests of any size: zero, 5 Hz, 1000 Hz and a step of 0.5 Hz from it,
\* 3000 Hz, above every Nyquist frequency
XoverLoMidAny == {20, 4000, 4002, 400000}
XoverMidHiAny == {0, 12000, 400000}

SampleRates == {8000, 44100}
\* the sample rates hosts run plugins at, lowest to highest
SampleRatesAny == {8000, 44100, 96000}
\* a rate below every audio rate next to the default: BufferConfig::sample_rate
\* is any f32 the host passes
SampleRatesLow == {100, 44100}
DefaultSampleRate == 44100

\* one band's CompressorSettings from its resolved parameters
\* faulty variant: the ratio passed on as the parameter gives it
ResolveSettingsRawRatio(p, sr) ==
    [threshold_db |-> p.threshold,
     ratio |-> p.ratio,
     attack_coef |-> ExpNeg(TimeScale, Max(p.attack, 1) * sr),
     release_coef |-> ExpNeg(TimeScale, Max(p.release, 1) * sr),
     makeup_db |-> p.makeup]

ResolveSettings(p, sr) ==
    [threshold_db |-> p.threshold,
     ratio |-> Max(p.ratio, RatioScale),
     attack_coef |-> ExpNeg(TimeScale, Max(p.attack, 1) * sr),
     release_coef |-> ExpNeg(TimeScale, Max(p.release, 1) * sr),
     makeup_db |-> p.makeup]

(***************************************************************************)
(* The engine                                                              *)
(***************************************************************************)

\* total frames (one sample of every channel) and blocks the model processes
MaxFrames == 1
MaxBlocks == 2

\* input samples a host hands over: silence, full scale, half scale inverted
SampleValues == {0, 1024, -512}

\* channel counts of AUDIO_IO_LAYOUTS
LayoutChannels == {2, 1}

\* PEAK_METER_DECAY_MS
PEAK_METER_DECAY_MS == 150
\* ln(4) in 1/WeightScale
Ln4 == 90852

\* 0.25^(1/n) in 1/WeightScale (second-order expansion of exp(-ln 4 / n))
PowQuarter(n) ==
    LET a == Ln4 \div n
    IN  WeightScale - a + (a * a) \div (2 * WeightScale)

DecayWeight(sr) == PowQuarter((sr * PEAK_METER_DECAY_MS) \div 1000)

VARIABLES
    sample_rate,              \* self.sample_rate
    filters,                  \* self.filters: Seq of ChannelFilters
    compressors,              \* self.compressors: Seq of <<low, mid, high>>
    current_lo_mid,           \* cache of the crossover frequencies
    current_mid_hi,
    peak_meter_decay_weight,
    peak_meter,               \* the shared AtomicF32
    xover_lo_mid,             \* params.xover_lo_mid.value()
    xover_mid_hi,             \* params.xover_mid_hi.value()
    editor_open,              \* params.editor_state.is_open()
    channels,                 \* channel count of the negotiated layout, 0 before initialize
    pc,                       \* position of the audio thread: idle, samples
    settings,                 \* the three CompressorSettings of the running block
    nch,                      \* channels of the buffer being processed
    ch_idx,                   \* next channel of the current frame (from 1)
    peak_amplitude,
    slot,                     \* the sample slot last processed: input, output, bank hits
    panicked,                 \* the audio thread aborted
    frames, blocks,           \* frames and blocks processed so far
    last_call,                \* the last update_crossovers call
    applied,                  \* frequencies the filters were last designed with
    meter_writes,             \* stores to peak_meter in the running block
    meter_event,              \* what the last block did to the meter
    meter_loaded,             \* process's local current_peak_meter: the value it loaded
    ui_peak,                  \* the value the editor's view loaded last
    meter_history,            \* every value the audio thread stored in the meter
    bq,                       \* a Biquad on its own
    bq_io,                    \* the last operation on bq, its input and output
    bq_steps,                 \* operations on bq so far
    band_comp,                \* a SingleBandCompressor on its own
    comp_settings,            \* the CompressorSettings it is called with
    comp_io,                  \* its last input and output, and what it has been fed
    twin                      \* two engines fed the same blocks, and the blocks so far

vars == <<sample_rate, filters, compressors, current_lo_mid, current_mid_hi,
          peak_meter_decay_weight, peak_meter, xover_lo_mid, xover_mid_hi,
          editor_open, channels, pc, settings, nch, ch_idx, peak_amplitude, slot,
          panicked, frames, blocks, last_call, applied, meter_writes, meter_event,
          meter_loaded, ui_peak, meter_history, bq, bq_io, bq_steps,
          band_comp, comp_settings, comp_io, twin>>

engine == <<sample_rate, filters, compressors, current_lo_mid, current_mid_hi,
            peak_meter_decay_weight>>
audio == <<pc, settings, nch, ch_idx, peak_amplitude, slot, panicked, frames, blocks,
           last_call, applied, meter_writes, meter_event>>

\* a Biquad outside any engine
bench == <<bq, bq_io, bq_steps>>
\* the variables of the split meter update and of the editor's view
meter_io == <<meter_loaded, ui_peak, meter_history>>
\* a compressor outside any engine
comp_bench == <<band_comp, comp_settings, comp_io>>
\* what the steps of the engine as a whole leave alone
aside == <<meter_io, bench, comp_bench, twin>>

NoSlot == [ch |-> 0, input |-> 0, out |-> 0, has_filters |-> FALSE, has_compressors |-> FALSE]
NoCall == [valid |-> FALSE, lo_mid |-> 0, mid_hi |-> 0, near_previous |-> FALSE,
           moved |-> FALSE, on_cache |-> FALSE, needs_update |-> FALSE,
           in_initialize |-> FALSE]
NoMeterEvent == [kind |-> "none", silent |-> TRUE]
NoSettings == <<>>
NoUiPeak == [valid |-> FALSE, value |-> 0]
\* SingleBandCompressor::new: nothing processed yet.  run counts the samples
\* since the input last changed, changes the changes of the input, above is
\* set once the envelope has exceeded the threshold; rising is set when the
\* last sample was above the envelope it met, deepening when the target it
\* gave was below the reduction it met; loudest is the highest input level
\* so far
CompressorCreated ==
    [input |-> 0, out |-> 0, run |-> 0, changes |-> 0, above |-> FALSE,
     rising |-> FALSE, deepening |-> FALSE, loudest |-> MINUS_INFINITY_DB]
\* Biquad::new was the last operation: default coefficients, no memory
BiquadCreated == [op |-> "new", x |-> 0, y |-> 0, fresh |-> TRUE, dirty |-> FALSE]
NotApplied == [valid |-> FALSE, low_freq |-> 0, high_freq |-> 0]

\* the record of an update_crossovers call with requests lo, hi made on the
\* cache cur_lo, cur_hi, given the record prev of the call before it:
\* near_previous when both requests are less than 0.5 Hz from those of the
\* call before, on_cache when the call before left its requests in the cache
CallRecord(prev, lo, hi, cur_lo, cur_hi, u, in_init) ==
    [valid |-> TRUE, lo_mid |-> lo, mid_hi |-> hi,
     near_previous |-> prev.valid
                       /\ Abs(lo - prev.lo_mid) < HysteresisHz
                       /\ Abs(hi - prev.mid_hi) < HysteresisHz,
     moved |-> prev.valid /\ <<lo, hi>> # <<prev.lo_mid, prev.mid_hi>>,
     on_cache |-> prev.valid /\ <<cur_lo, cur_hi>> = <<prev.lo_mid, prev.mid_hi>>,
     needs_update |-> u.needs_update, in_initialize |-> in_init]

AppliedAfter(u, old) ==
    IF u.needs_update /\ ~u.panics
    THEN [valid |-> TRUE, low_freq |-> u.low_freq, high_freq |-> u.high_freq]
    ELSE old

\* Default::default() of the engine, with the editor open or closed and a
\* value in the meter
EngineNew(open, meter) ==
    [sample_rate |-> DefaultSampleRate,
     filters |-> <<>>,
     compressors |-> <<>>,
     current_lo_mid |-> 0,
     current_mid_hi |-> 0,
     peak_meter_decay_weight |-> WeightScale,
     peak_meter |-> meter,
     editor_open |-> open,
     settings |-> NoSettings,
     peak_amplitude |-> 0,
     out |-> <<>>]

\* two engines no host has initialized yet: the left one with the editor
\* closed and the meter at its floor, the right one with the editor open and
\* the meter at full scale, where a full-scale block passed through leaves it
TwinNew ==
    [left |-> EngineNew(FALSE, (MINUS_INFINITY_DB \div DbScale) * AmpScale),
     right |-> EngineNew(TRUE, AmpScale),
     blocks |-> 0]

\* Default for MultibandCompressor and for its parameters
Init ==
    /\ sample_rate = DefaultSampleRate
    /\ filters = <<>>
    /\ compressors = <<>>
    /\ current_lo_mid = 0
    /\ current_mid_hi = 0
    /\ peak_meter_decay_weight = WeightScale
    /\ peak_meter = (MINUS_INFINITY_DB \div DbScale) * AmpScale
    /\ xover_lo_mid = XoverLoMidDefault
    /\ xover_mid_hi = XoverMidHiDefault
    /\ editor_open = FALSE
    /\ channels = 0
    /\ pc = "idle"
    /\ settings = NoSettings
    /\ nch = 0
    /\ ch_idx = 1
    /\ peak_amplitude = 0
    /\ slot = NoSlot
    /\ panicked = FALSE
    /\ frames = 0
    /\ blocks = 0
    /\ last_call = NoCall
    /\ applied = NotApplied
    /\ meter_writes = 0
    /\ meter_event = NoMeterEvent
    /\ meter_loaded = 0
    /\ ui_peak = NoUiPeak
    /\ meter_history = {}
    /\ bq = BiquadNew
    /\ bq_io = BiquadCreated
    /\ bq_steps = 0
    /\ band_comp = SingleBandCompressorNew
    /\ comp_settings = NoSettings
    /\ comp_io = CompressorCreated
    /\ twin = TwinNew

\* the host or the GUI moves a crossover parameter (any thread, any time)
SetCrossover(lo_values, hi_values) ==
    /\ ~panicked
    /\ \E lo \in lo_values, hi \in hi_values :
         /\ <<lo, hi>> # <<xover_lo_mid, xover_mid_hi>>
         /\ xover_lo_mid' = lo
         /\ xover_mid_hi' = hi
    /\ UNCHANGED <<engine, audio, peak_meter, editor_open, channels, aside>>

\* the GUI opens or closes the editor
ToggleEditor ==
    /\ ~panicked
    /\ editor_open' = ~editor_open
    /\ UNCHANGED <<engine, audio, peak_meter, xover_lo_mid, xover_mid_hi, channels, aside>>

\* the number of channels initialize allocates state for
AllocatedChannels(layout_channels) == 2

\* faulty variant of the cache reset: the cache survives initialize
KeepCache(current) == current

\* self.current_lo_mid = 0.0; self.current_mid_hi = 0.0
ResetCache(current) == 0

\* faulty variant: the compressors are rebuilt only when their number changes
CompressorsKept(old, ch) ==
    IF Len(old) = ch THEN old ELSE [c \in 1..ch |-> [b \in 1..3 |-> SingleBandCompressorNew]]

\* self.compressors.clear() and ch pushes of three BandCompressor::new()
CompressorsRebuilt(old, ch) == [c \in 1..ch |-> [b \in 1..3 |-> SingleBandCompressorNew]]

\* Plugin::initialize
initialize(layout_channels, sr) ==
    /\ pc = "idle"
    /\ ~panicked
    /\ \E ch \in {AllocatedChannels(layout_channels)} :
       \E u \in {update_crossovers(xover_lo_mid, xover_mid_hi, ResetCache(current_lo_mid),
                                  ResetCache(current_mid_hi), sr,
                                  [c \in 1..ch |-> ChannelFiltersNew])} :
           /\ sample_rate' = sr
           /\ current_lo_mid' = u.current_lo_mid
           /\ current_mid_hi' = u.current_mid_hi
           /\ filters' = u.filters
           /\ compressors' = CompressorsRebuilt(compressors, ch)
           /\ panicked' = u.panics
           /\ peak_meter_decay_weight' = IF u.panics THEN peak_meter_decay_weight
                                         ELSE DecayWeight(sr)
           /\ last_call' = CallRecord(last_call, xover_lo_mid, xover_mid_hi,
                                      ResetCache(current_lo_mid),
                                      ResetCache(current_mid_hi), u, TRUE)
           /\ applied' = AppliedAfter(u, NotApplied)
    /\ channels' = layout_channels
    /\ UNCHANGED <<peak_meter, xover_lo_mid, xover_mid_hi, editor_open, pc, settings, nch,
                   ch_idx, peak_amplitude, slot, frames, blocks, meter_writes, meter_event,
                   aside>>

Initialize(layouts, rates) == \E l \in layouts, sr \in rates : initialize(l, sr)

\* two cascaded sections
Cascade(pair, x) ==
    LET r1 == biquad_process_sample(pair[1], x)
        r2 == biquad_process_sample(pair[2], r1.y)
    IN  [pair |-> <<r1.bq, r2.bq>>, y |-> r2.y]

\* faulty variant of the band split: the mid band through its lowpass
\* sections first
BandSplitLowpassFirst(f, input) ==
    LET low == Cascade(f.low_lp, input)
        high == Cascade(f.high_hp, input)
        mid1 == Cascade(f.mid_lp, input)
        mid2 == Cascade(f.mid_hp, mid1.y)
    IN  [filters |-> [low_lp |-> low.pair, mid_hp |-> mid2.pair,
                      mid_lp |-> mid1.pair, high_hp |-> high.pair],
         low |-> low.y, mid |-> mid2.y, high |-> high.y]

\* the band split of one input sample by the filters f of a channel
BandSplit(f, input) ==
    LET low == Cascade(f.low_lp, input)
        high == Cascade(f.high_hp, input)
        mid1 == Cascade(f.mid_hp, input)
        mid2 == Cascade(f.mid_lp, mid1.y)
    IN  [filters |-> [low_lp |-> low.pair, mid_hp |-> mid1.pair,
                      mid_lp |-> mid2.pair, high_hp |-> high.pair],
         low |-> low.y, mid |-> mid2.y, high |-> high.y]

\* the three band compressors of a channel applied to the three band samples
Compress(bands, low, mid, high, s) ==
    LET l == compressor_process_sample(bands[1], low, s[1])
        m == compressor_process_sample(bands[2], mid, s[2])
        h == compressor_process_sample(bands[3], high, s[3])
    IN  [bands |-> <<l.c, m.c, h.c>>, low |-> l.out, mid |-> m.out, high |-> h.out]

\* faulty variant: every channel runs through the state of the first
FirstChannelState(ch) == 1

\* the entry of the banks a sample of channel ch works on:
\* self.filters.get_mut(ch_idx), self.compressors.get_mut(ch_idx)
ChannelState(ch) == ch

\* faulty variant: a channel without state gets a fresh entry on the fly
MissingStateAllocated(bank, fresh) == Append(bank, fresh)

\* a bank that has no entry for the channel: get_mut gives None and the bank
\* stays as it is
MissingState(bank, fresh) == bank

\* the body of the per-sample loop for channel ch and input sample: what
\* self.filters.get_mut and self.compressors.get_mut find decides the path
ProcessSlot(flt, cmp, ch, input, s) ==
    LET has_f == ch \in DOMAIN flt
        has_c == ch \in DOMAIN cmp
        split == IF has_f THEN BandSplit(flt[ChannelState(ch)], input)
                 ELSE [filters |-> <<>>, low |-> input, mid |-> 0, high |-> 0]
        comp == IF has_c THEN Compress(cmp[ChannelState(ch)], split.low, split.mid,
                                       split.high, s)
                ELSE [bands |-> <<>>, low |-> split.low, mid |-> split.mid, high |-> split.high]
    IN  [filters |-> IF has_f THEN [flt EXCEPT ![ChannelState(ch)] = split.filters]
                     ELSE MissingState(flt, ChannelFiltersNew),
         compressors |-> IF has_c THEN [cmp EXCEPT ![ChannelState(ch)] = comp.bands]
                         ELSE MissingState(cmp, [b \in 1..3 |-> SingleBandCompressorNew]),
         out |-> comp.low + comp.mid + comp.high,
         has_filters |-> has_f,
         has_compressors |-> has_c]

\* faulty variant of the meter update: the two weights exchanged
NewPeakMeterSwapped(current_peak_meter, peak, weight) ==
    IF peak > current_peak_meter
    THEN peak
    ELSE MulDiv(current_peak_meter, WeightScale - weight, WeightScale)
         + MulDiv(peak, weight, WeightScale)

\* the value the end of a block stores in the meter
NewPeakMeter(current_peak_meter, peak, weight) ==
    IF peak > current_peak_meter
    THEN peak
    ELSE MulDiv(current_peak_meter, weight, WeightScale)
         + MulDiv(peak, WeightScale - weight, WeightScale)

\* faulty variant of the editor test: the meter is updated in every block
MeterAlways(open) == TRUE

\* if self.params.editor_state.is_open()
MeterAttached(open) == open

\* Plugin::process up to the per-sample loop: the settings snapshots and the
\* crossover update.  The buffer has the layout's channels (any layout when
\* the host never initialized the engine).
ProcessBegin(choices) ==
    /\ pc = "idle"
    /\ ~panicked
    /\ blocks < MaxBlocks
    /\ \E choice \in choices :
         settings' = [b \in 1..3 |-> ResolveSettings(choice[b], sample_rate)]
    /\ \E u \in {update_crossovers(xover_lo_mid, xover_mid_hi, current_lo_mid,
                                  current_mid_hi, sample_rate, filters)} :
           /\ current_lo_mid' = u.current_lo_mid
           /\ current_mid_hi' = u.current_mid_hi
           /\ filters' = u.filters
           /\ panicked' = u.panics
           /\ last_call' = CallRecord(last_call, xover_lo_mid, xover_mid_hi,
                                      current_lo_mid, current_mid_hi, u, FALSE)
           /\ applied' = AppliedAfter(u, applied)
    /\ \E n \in LayoutChannels :
         /\ channels # 0 => n = channels
         /\ nch' = n
    /\ ch_idx' = 1
    /\ peak_amplitude' = 0
    /\ meter_writes' = 0
    /\ blocks' = blocks + 1
    /\ pc' = "samples"
    /\ meter_event' = NoMeterEvent
    /\ UNCHANGED <<sample_rate, compressors, peak_meter_decay_weight, peak_meter,
                   xover_lo_mid, xover_mid_hi, editor_open, channels, slot, frames, aside>>

\* faulty variant: the frequency-update policy runs in every iteration
PerSampleCrossovers(lo_mid, mid_hi, cur_lo, cur_hi, sr, flt) ==
    update_crossovers(lo_mid, mid_hi, cur_lo, cur_hi, sr, flt)

\* the cache and the bank an iteration of the loop starts from: the loop has
\* no call of update_crossovers and no read of the crossover parameters
LoopCrossovers(lo_mid, mid_hi, cur_lo, cur_hi, sr, flt) ==
    [current_lo_mid |-> cur_lo, current_mid_hi |-> cur_hi, filters |-> flt]

\* one iteration of the per-sample loop: channel ch_idx of the current frame
ProcessSample(values) ==
    /\ pc = "samples"
    /\ ~panicked
    /\ ch_idx > 1 \/ frames < MaxFrames
    /\ \E input \in values :
         \E u \in {LoopCrossovers(xover_lo_mid, xover_mid_hi, current_lo_mid,
                                 current_mid_hi, sample_rate, filters)} :
         \E r \in {ProcessSlot(u.filters, compressors, ch_idx, input, settings)} :
             /\ current_lo_mid' = u.current_lo_mid
             /\ current_mid_hi' = u.current_mid_hi
             /\ filters' = r.filters
             /\ compressors' = r.compressors
             /\ slot' = [ch |-> ch_idx, input |-> input, out |-> r.out,
                         has_filters |-> r.has_filters,
                         has_compressors |-> r.has_compressors]
             /\ peak_amplitude' = Max(peak_amplitude, Abs(r.out))
    /\ frames' = IF ch_idx = 1 THEN frames + 1 ELSE frames
    /\ ch_idx' = IF ch_idx = nch THEN 1 ELSE ch_idx + 1
    /\ UNCHANGED <<sample_rate, peak_meter_decay_weight,
                   peak_meter, xover_lo_mid, xover_mid_hi, editor_open, channels, pc,
                   settings, nch, panicked, blocks, last_call, applied, meter_writes,
                   meter_event, aside>>

\* the end of the buffer: the peak meter update and the return (the locals of
\* process end with it)
ProcessEnd ==
    /\ pc = "samples"
    /\ ~panicked
    /\ ch_idx = 1
    /\ IF MeterAttached(editor_open)
       THEN /\ peak_meter' = NewPeakMeter(peak_meter, peak_amplitude, peak_meter_decay_weight)
            /\ meter_writes' = meter_writes + 1
            /\ meter_event' = [kind |-> IF peak_amplitude > peak_meter THEN "attack"
                                        ELSE "decay",
                               silent |-> peak_amplitude = 0]
       ELSE /\ UNCHANGED <<peak_meter, meter_writes>>
            /\ meter_event' = [kind |-> "skipped", silent |-> peak_amplitude = 0]
    /\ pc' = "idle"
    /\ settings' = NoSettings
    /\ nch' = 0
    /\ peak_amplitude' = 0
    /\ slot' = NoSlot
    /\ UNCHANGED <<engine, xover_lo_mid, xover_mid_hi, editor_open, channels, ch_idx,
                   panicked, frames, blocks, last_call, applied, aside>>

\* The meter update of process as the two atomic accesses it is made of, so
\* that the editor's loads can fall between them.
\* the end of the buffer with the editor open: self.peak_meter.load(Relaxed)
MeterLoad ==
    /\ pc = "samples"
    /\ ~panicked
    /\ ch_idx = 1
    /\ MeterAttached(editor_open)
    /\ meter_loaded' = peak_meter
    /\ pc' = "meter"
    /\ UNCHANGED <<engine, peak_meter, xover_lo_mid, xover_mid_hi, editor_open, channels,
                   settings, nch, ch_idx, peak_amplitude, slot, panicked, frames, blocks,
                   last_call, applied, meter_writes, meter_event, ui_peak, meter_history,
                   bench, comp_bench, twin>>

\* self.peak_meter.store(new_peak_meter, Relaxed) and the return
MeterStore ==
    /\ pc = "meter"
    /\ peak_meter' = NewPeakMeter(meter_loaded, peak_amplitude, peak_meter_decay_weight)
    /\ meter_history' = meter_history \cup {peak_meter'}
    /\ meter_writes' = meter_writes + 1
    /\ meter_event' = [kind |-> IF peak_amplitude > meter_loaded THEN "attack"
                                ELSE "decay",
                       silent |-> peak_amplitude = 0]
    /\ pc' = "idle"
    /\ settings' = NoSettings
    /\ nch' = 0
    /\ peak_amplitude' = 0
    /\ slot' = NoSlot
    /\ meter_loaded' = 0
    /\ UNCHANGED <<engine, xover_lo_mid, xover_mid_hi, editor_open, channels, ch_idx,
                   panicked, frames, blocks, last_call, applied, ui_peak, bench, comp_bench, twin>>

\* the end of the buffer with the editor closed: no access to the meter
ProcessEndDetached == ~MeterAttached(editor_open) /\ ProcessEnd

\* faulty variant of the editor's access: the view resets the meter it read
UiLoadAndReset(value) == 0

\* what the editor's view leaves in the meter: it only loads
UiLoadOnly(value) == value

\* MultibandCompressorEditor::view draws the peak meter: one relaxed load,
\* at any time while the editor is open
UiLoad ==
    /\ editor_open
    /\ ui_peak' = [valid |-> TRUE, value |-> peak_meter]
    /\ peak_meter' = UiLoadOnly(peak_meter)
    /\ UNCHANGED <<engine, audio, xover_lo_mid, xover_mid_hi, editor_open, channels,
                   meter_loaded, meter_history, bench, comp_bench, twin>>

(***************************************************************************)
(* A Biquad on its own                                                     *)
(***************************************************************************)

\* operations applied to the Biquad
MaxBiquadSteps == 4

\* cutoff frequencies handed to set_lowpass / set_highpass: 200 Hz, 2000 Hz
DesignFreqs == {XoverLoMidDefault, XoverMidHiDefault}

\* faulty variant of the reset: the memory survives the new coefficients
KeepMemory(z) == z

\* self.z1 = 0.0; self.z2 = 0.0 at the end of set_lowpass / set_highpass
ResetMemory(z) == 0

\* bq.set_lowpass(freq, sr) or bq.set_highpass(freq, sr) on the Biquad as it is
BiquadDesign ==
    /\ bq_steps < MaxBiquadSteps
    /\ \E kind \in {"lowpass", "highpass"}, freq \in DesignFreqs, sr \in SampleRates :
         \E d \in {IF kind = "lowpass" THEN set_lowpass(freq, sr)
                   ELSE set_highpass(freq, sr)} :
             /\ bq' = [d EXCEPT !.z1 = ResetMemory(bq.z1), !.z2 = ResetMemory(bq.z2)]
             /\ bq_io' = [op |-> kind, x |-> 0, y |-> 0, fresh |-> FALSE,
                          dirty |-> bq.z1 # 0 \/ bq.z2 # 0]
    /\ bq_steps' = bq_steps + 1
    /\ UNCHANGED <<engine, audio, peak_meter, xover_lo_mid, xover_mid_hi, editor_open,
                   channels, meter_io, comp_bench, twin>>

\* bq.process_sample(x)
BiquadSample ==
    /\ bq_steps < MaxBiquadSteps
    /\ \E x \in SampleValues :
         \E r \in {biquad_process_sample(bq, x)} :
             /\ bq' = r.bq
             /\ bq_io' = [op |-> "sample", x |-> x, y |-> r.y, fresh |-> bq_io.fresh,
                          dirty |-> FALSE]
    /\ bq_steps' = bq_steps + 1
    /\ UNCHANGED <<engine, audio, peak_meter, xover_lo_mid, xover_mid_hi, editor_open,
                   channels, meter_io, comp_bench, twin>>

(***************************************************************************)
(* A compressor on its own                                                 *)
(***************************************************************************)

\* changes of the input level, and samples fed at one level
MaxLevelChanges == 2
MaxRun == 16

\* inputs: silence, -36 dB inverted, 0 dB
CompressorInputs == {0, -16, 1024}

\* exp(-1/(0.1 ms * 8 kHz)), the fastest coefficient of the parameter ranges,
\* and 1/2
FastCoef == ExpNeg(TimeScale, 8000)
HalfCoef == CoefScale \div 2

\* CompressorSettings: 4:1 above -12 dB; ratio 1 above -60 dB with 6 dB of
\* makeup; 20:1 above -60 dB with 6 dB of makeup; 2:1 above -40 dB with 6 dB
\* of attenuation
BenchSettings ==
    {[threshold_db |-> -1200, ratio |-> 40, attack_coef |-> FastCoef,
      release_coef |-> HalfCoef, makeup_db |-> 0],
     [threshold_db |-> -6000, ratio |-> RatioScale, attack_coef |-> FastCoef,
      release_coef |-> HalfCoef, makeup_db |-> 600],
     [threshold_db |-> -6000, ratio |-> 200, attack_coef |-> HalfCoef,
      release_coef |-> FastCoef, makeup_db |-> 600],
     [threshold_db |-> -4000, ratio |-> 20, attack_coef |-> HalfCoef,
      release_coef |-> HalfCoef, makeup_db |-> -600]}

\* SingleBandCompressor::new() and the settings of its band
CompressorNew ==
    /\ comp_settings = NoSettings
    /\ band_comp' = SingleBandCompressorNew
    /\ comp_settings' \in BenchSettings
    /\ comp_io' = CompressorCreated
    /\ UNCHANGED <<engine, audio, peak_meter, xover_lo_mid, xover_mid_hi, editor_open,
                   channels, meter_io, bench, twin>>

\* band_comp.process_sample(input, &settings)
CompressorSample ==
    /\ comp_settings # NoSettings
    /\ \E input \in CompressorInputs :
         /\ IF comp_io.run > 0 /\ input # comp_io.input
            THEN comp_io.changes < MaxLevelChanges
            ELSE comp_io.run < MaxRun
         /\ \E r \in {compressor_process_sample(band_comp, input, comp_settings)} :
              /\ band_comp' = r.c
              /\ comp_io' =
                    [input |-> input, out |-> r.out,
                     run |-> IF input = comp_io.input THEN comp_io.run + 1 ELSE 1,
                     changes |-> IF comp_io.run > 0 /\ input # comp_io.input
                                 THEN comp_io.changes + 1 ELSE comp_io.changes,
                     above |-> comp_io.above
                               \/ r.c.envelope > comp_settings.threshold_db,
                     rising |-> InputDb(input) > band_comp.envelope,
                     deepening |-> TargetReduction(r.c.envelope, comp_settings)
                                   < band_comp.gain_reduction_db,
                     loudest |-> Max(comp_io.loudest, InputDb(input))]
    /\ UNCHANGED <<engine, audio, peak_meter, xover_lo_mid, xover_mid_hi, editor_open,
                   channels, meter_io, bench, comp_settings, twin>>

(***************************************************************************)
(* Two engines side by side                                                *)
(***************************************************************************)

\* blocks handed to the two engines
MaxTwinBlocks == 2

\* one stereo frame: full scale left and half scale inverted right
TwinFrame == <<1024, -512>>

\* the blocks the host can hand over, each with the parameter values it is
\* processed under: the default parameters, the extreme band parameters, the
\* low crossover moved to 1000 Hz, and a silent block
TwinBlocks ==
    {[lo_mid |-> XoverLoMidDefault, choice |-> BandDefaults, frame |-> TwinFrame],
     [lo_mid |-> XoverLoMidDefault, choice |-> BandExtremes, frame |-> TwinFrame],
     [lo_mid |-> 4000, choice |-> BandDefaults, frame |-> TwinFrame],
     [lo_mid |-> XoverLoMidDefault, choice |-> BandDefaults, frame |-> <<0, 0>>]}

\* faulty variant of the write-back: the sample is held under the meter while
\* the editor is open
SampleUnderMeter(out, open, meter) == IF open THEN Min(out, meter) ELSE out

\* *sample = out: the sum of the three bands, whatever the editor and the
\* meter are
SampleWritten(out, open, meter) == out

\* the element of a set of one element
The(S) == CHOOSE x \in S : TRUE

\* Plugin::initialize on the engine e (the rates of SampleRates are above the
\* ones a clamp can fail at)
engine_initialize(e, lo_mid, mid_hi, sr) ==
    The({[e EXCEPT !.sample_rate = sr,
                   !.current_lo_mid = u.current_lo_mid,
                   !.current_mid_hi = u.current_mid_hi,
                   !.filters = u.filters,
                   !.compressors = CompressorsRebuilt(e.compressors, AllocatedChannels(2)),
                   !.peak_meter_decay_weight = DecayWeight(sr)] :
         u \in {update_crossovers(lo_mid, mid_hi, ResetCache(e.current_lo_mid),
                                  ResetCache(e.current_mid_hi), sr,
                                  [c \in 1..AllocatedChannels(2) |-> ChannelFiltersNew])}})

\* Plugin::process on the engine e up to the per-sample loop: the settings
\* snapshots, the crossover update, let mut peak_amplitude = 0.0
engine_begin(e, lo_mid, mid_hi, choice) ==
    The({[e EXCEPT !.current_lo_mid = u.current_lo_mid,
                   !.current_mid_hi = u.current_mid_hi,
                   !.filters = u.filters,
                   !.settings = [b \in 1..3 |-> ResolveSettings(choice[b], e.sample_rate)],
                   !.peak_amplitude = 0,
                   !.out = <<>>] :
         u \in {update_crossovers(lo_mid, mid_hi, e.current_lo_mid, e.current_mid_hi,
                                  e.sample_rate, e.filters)}})

\* one iteration of the per-sample loop of the engine e: channel ch
engine_sample(e, ch, input) ==
    The({[e EXCEPT !.filters = r.filters,
                   !.compressors = r.compressors,
                   !.out = Append(e.out, SampleWritten(r.out, e.editor_open, e.peak_meter)),
                   !.peak_amplitude =
                       Max(e.peak_amplitude,
                           Abs(SampleWritten(r.out, e.editor_open, e.peak_meter)))] :
         r \in {ProcessSlot(e.filters, e.compressors, ch, input, e.settings)}})

\* the end of the buffer on the engine e: the peak meter update and the
\* return
engine_end(e) ==
    [e EXCEPT !.peak_meter = IF MeterAttached(e.editor_open)
                             THEN NewPeakMeter(e.peak_meter, e.peak_amplitude,
                                               e.peak_meter_decay_weight)
                             ELSE e.peak_meter,
              !.settings = NoSettings,
              !.peak_amplitude = 0]

\* what the steps of the two engines leave alone
single == <<engine, audio, peak_meter, xover_lo_mid, xover_mid_hi, editor_open, channels,
            meter_io, bench, comp_bench>>

\* the editor of one of the two engines opens or closes
TwinToggle ==
    /\ \E side \in {"left", "right"} :
         twin' = [twin EXCEPT ![side].editor_open = ~twin[side].editor_open]
    /\ UNCHANGED single

\* the host initializes both engines at the same sample rate
TwinInitialize ==
    /\ \E sr \in SampleRates :
         \E l \in {engine_initialize(twin.left, XoverLoMidDefault, XoverMidHiDefault, sr)} :
         \E r \in {engine_initialize(twin.right, XoverLoMidDefault, XoverMidHiDefault, sr)} :
             twin' = [twin EXCEPT !.left = l, !.right = r]
    /\ UNCHANGED single

\* the host hands both engines the same block, one stereo frame, under the
\* same parameter values
TwinProcess ==
    /\ twin.blocks < MaxTwinBlocks
    /\ \E blk \in TwinBlocks :
         \E l0 \in {engine_begin(twin.left, blk.lo_mid, XoverMidHiDefault, blk.choice)} :
         \E r0 \in {engine_begin(twin.right, blk.lo_mid, XoverMidHiDefault, blk.choice)} :
         \E l1 \in {engine_sample(l0, 1, blk.frame[1])} :
         \E r1 \in {engine_sample(r0, 1, blk.frame[1])} :
         \E l2 \in {engine_sample(l1, 2, blk.frame[2])} :
         \E r2 \in {engine_sample(r1, 2, blk.frame[2])} :
             twin' = [left |-> engine_end(l2), right |-> engine_end(r2),
                      blocks |-> twin.blocks + 1]
    /\ UNCHANGED single

(***************************************************************************)
(* Specifications                                                          *)
(***************************************************************************)

\* the engine with its meter: every layout and sample rate, blocks of any
\* samples under either parameter set, the editor opening and closing; the
\* crossover parameters stay at their defaults (SpecCrossover moves them)
InitializeEngine == Initialize(LayoutChannels, SampleRates)
BeginBlock == ProcessBegin(BandParamChoices)
Sample == ProcessSample(SampleValues)

Next ==
    \/ InitializeEngine
    \/ ToggleEditor
    \/ BeginBlock
    \/ Sample
    \/ ProcessEnd

Spec == Init /\ [][Next]_vars

\* the crossover network: the crossover parameters move in small steps
\* between and during blocks of full-scale samples; the editor stays closed
SetCrossoverFine == SetCrossover(XoverLoMidFine, XoverMidHiFine)
BeginBlockDefaults == ProcessBegin({BandDefaults})
SampleFullScale == ProcessSample({1024})

NextCrossover ==
    \/ InitializeEngine
    \/ SetCrossoverFine
    \/ BeginBlockDefaults
    \/ SampleFullScale
    \/ ProcessEnd

SpecCrossover == Init /\ [][NextCrossover]_vars

\* the frequency clamp: update_crossovers on requests of any size at any
\* sample rate, called from initialize (stereo) and from blocks without
\* samples
InitializeAny == Initialize({2}, SampleRatesAny)
SetCrossoverAny == SetCrossover(XoverLoMidAny, XoverMidHiAny)

NextClamp ==
    \/ InitializeAny
    \/ SetCrossoverAny
    \/ BeginBlockDefaults
    \/ ProcessEnd

SpecClamp == Init /\ [][NextClamp]_vars

\* the shared peak meter: stereo blocks of silent or full-scale samples with
\* the meter update split into its load and its store, the editor opening,
\* closing and loading the meter, a crossover parameter moved from the editor
InitializeStereo == Initialize({2}, {DefaultSampleRate})
SetCrossoverCoarse == SetCrossover({XoverLoMidDefault, 2 * XoverLoMidDefault},
                                   {XoverMidHiDefault})
SampleOnOff == ProcessSample({0, 1024})

NextMeter ==
    \/ InitializeStereo
    \/ SetCrossoverCoarse
    \/ ToggleEditor
    \/ BeginBlockDefaults
    \/ SampleOnOff
    \/ MeterLoad
    \/ MeterStore
    \/ ProcessEndDetached
    \/ UiLoad

SpecMeter == Init /\ [][NextMeter]_vars

\* the settings snapshot: stereo blocks under parameter values inside and
\* outside their ranges
BeginBlockAnyParams == ProcessBegin({BandDefaults, BandOutOfRange})

NextSettings ==
    \/ InitializeEngine
    \/ BeginBlockAnyParams
    \/ Sample
    \/ ProcessEnd

SpecSettings == Init /\ [][NextSettings]_vars

\* failure paths: initialize at a very low or an ordinary sample rate,
\* requests of any size, full-scale blocks
InitializeLow == Initialize(LayoutChannels, SampleRatesLow)

NextFailure ==
    \/ InitializeLow
    \/ SetCrossoverAny
    \/ BeginBlockDefaults
    \/ SampleFullScale
    \/ ProcessEnd

SpecFailure == Init /\ [][NextFailure]_vars

\* two engines that differ in their editor and their meter only, initialized
\* and fed blocks together
NextTwin ==
    \/ TwinToggle
    \/ TwinInitialize
    \/ TwinProcess

SpecTwin == Init /\ [][NextTwin]_vars

\* a Biquad from Biquad::new on, redesigned and fed samples in any order
NextBiquad ==
    \/ BiquadDesign
    \/ BiquadSample

SpecBiquad == Init /\ [][NextBiquad]_vars

\* one compressor from SingleBandCompressor::new on
NextCompressor ==
    \/ CompressorNew
    \/ CompressorSample

SpecCompressor == Init /\ [][NextCompressor]_vars

(***************************************************************************)
(* Properties                                                              *)
(***************************************************************************)

\* a step of the audio thread that is the update_crossovers call of process
IsBlockBegin == blocks' = blocks + 1

\* some Biquad of the bank holds filter memory
HasFilterMemory ==
    \E ch \in DOMAIN filters :
        \E k \in {"low_lp", "mid_hp", "mid_lp", "high_hp"}, i \in 1..2 :
            filters[ch][k][i].z1 # 0 \/ filters[ch][k][i].z2 # 0

\* clamp as the documentation of the policy states it
RefClamp(x, lo, hi) == IF x < lo THEN lo ELSE IF x > hi THEN hi ELSE x
RefLow(x, sr) == RefClamp(x, 10 * FreqScale, (sr * FreqScale * 4) \div 10)
RefHigh(x, low, sr) == RefClamp(x, low + 10 * FreqScale, (sr * FreqScale * 99) \div 200)
RefFilters(lo, hi, sr) ==
    DesignedFilters(RefLow(lo, sr), RefHigh(hi, RefLow(lo, sr), sr), sr)

\* C1, as stated: a call of update_crossovers whose two requests are each
\* less than 0.5 Hz from the requests of the call before it leaves every
\* coefficient and every z1, z2 of the bank unchanged.
C1_NearPreviousCallKeepsFilters ==
    [][(IsBlockBegin /\ last_call.valid
        /\ Abs(xover_lo_mid - last_call.lo_mid) < HysteresisHz
        /\ Abs(xover_mid_hi - last_call.mid_hi) < HysteresisHz)
       => filters' = filters]_vars

\* C1, amended: a call whose two requests are each less than 0.5 Hz from the
\* requests of the call before it, when the call before left its requests in
\* the cache, leaves every coefficient, every z1, z2 and the cache unchanged.
C1_NearCachedCallKeepsFilters ==
    [][(IsBlockBegin /\ last_call.valid
        /\ Abs(xover_lo_mid - last_call.lo_mid) < HysteresisHz
        /\ Abs(xover_mid_hi - last_call.mid_hi) < HysteresisHz
        /\ last_call.lo_mid = current_lo_mid
        /\ last_call.mid_hi = current_mid_hi)
       => /\ filters' = filters
          /\ current_lo_mid' = current_lo_mid
          /\ current_mid_hi' = current_mid_hi]_vars

\* a call in process moved by less than 0.5 Hz from the cached requests of
\* the call before and kept a bank that holds filter memory
C1_Witness ==
    /\ last_call.valid /\ ~last_call.in_initialize
    /\ last_call.near_previous /\ last_call.moved /\ last_call.on_cache
    /\ ~last_call.needs_update
    /\ HasFilterMemory

\* C2, as stated: the call of process recomputes exactly when a request is
\* more than 0.5 Hz from the clamped frequency the filters were last designed
\* with.
C2_RecomputeIffFarFromApplied ==
    [][(IsBlockBegin /\ applied.valid)
       => (last_call'.needs_update
           <=> (Abs(xover_lo_mid - applied.low_freq) > HysteresisHz
                \/ Abs(xover_mid_hi - applied.high_freq) > HysteresisHz))]_vars

\* C2, amended: the call recomputes exactly when a request is more than
\* 0.5 Hz from its cached frequency (current_lo_mid, current_mid_hi: the
\* unclamped request stored last); then every channel is redesigned, else the
\* bank and the cache are unchanged.
C2_RecomputeIffFarFromCache ==
    [][IsBlockBegin
       => LET far == Abs(xover_lo_mid - current_lo_mid) > HysteresisHz
                     \/ Abs(xover_mid_hi - current_mid_hi) > HysteresisHz
          IN  /\ last_call'.needs_update <=> far
              /\ ~far => /\ filters' = filters
                         /\ current_lo_mid' = current_lo_mid
                         /\ current_mid_hi' = current_mid_hi
              /\ far => \A ch \in DOMAIN filters' :
                            filters'[ch] = RefFilters(current_lo_mid', current_mid_hi',
                                                      sample_rate)]_vars

\* a call that met a request exactly 0.5 Hz from the cache and recomputed
\* nothing, on a bank with filter memory
C2_Witness ==
    /\ last_call.valid /\ ~last_call.in_initialize /\ ~last_call.needs_update
    /\ Abs(last_call.lo_mid - current_lo_mid) = HysteresisHz
    /\ HasFilterMemory

C4_AppliedIsClampOfRequest ==
    (last_call.valid /\ last_call.needs_update /\ applied.valid)
    => /\ applied.low_freq = RefLow(last_call.lo_mid, sample_rate)
       /\ applied.high_freq = RefHigh(last_call.mid_hi, applied.low_freq, sample_rate)

\* C4, amended: the frequencies the filters are designed with are the
\* reference clamp of the cached frequencies; a request below 10 Hz that
\* entered the cache is applied as exactly 10 Hz with high_freq >= 20 Hz.
C4_AppliedIsClampOfCache ==
    applied.valid
    => /\ applied.low_freq = RefLow(current_lo_mid, sample_rate)
       /\ applied.high_freq = RefHigh(current_mid_hi, applied.low_freq, sample_rate)
       /\ current_lo_mid < 10 * FreqScale
            => applied.low_freq = 10 * FreqScale /\ applied.high_freq >= 20 * FreqScale

\* requests of 5 Hz and 3000 Hz at 44100 Hz were applied as 10 Hz and 3000 Hz
C4_Witness ==
    /\ last_call.valid /\ last_call.needs_update /\ applied.valid
    /\ sample_rate = 44100
    /\ last_call.lo_mid = 5 * FreqScale /\ last_call.mid_hi = 3000 * FreqScale
    /\ applied.low_freq = 10 * FreqScale /\ applied.high_freq = 3000 * FreqScale

\* C5: after initialize, until the next block begins, both channels hold the
\* filters designed for the clamp of the frequencies requested at initialize,
\* at the new sample rate, and no Biquad has the identity coefficients.
C5_InitializeDesignsFilters ==
    (last_call.valid /\ last_call.in_initialize)
    => /\ ~panicked
       /\ DOMAIN filters = 1..2
       /\ \A ch \in DOMAIN filters :
            /\ filters[ch] = RefFilters(last_call.lo_mid, last_call.mid_hi, sample_rate)
            /\ \A k \in {"low_lp", "mid_hp", "mid_lp", "high_hp"}, i \in 1..2 :
                 Coefs(filters[ch][k][i]) # Coefs(BiquadNew)

\* initialize at 8000 Hz after blocks were processed, the requests unchanged
\* since the call before
C5_Witness ==
    /\ last_call.valid /\ last_call.in_initialize
    /\ blocks > 0 /\ frames > 0
    /\ sample_rate = 8000
    /\ ~last_call.moved

\* C6: once initialize has run, the filter bank and the compressor bank
\* both have as many entries as the negotiated layout has channels.
C6_BanksMatchLayout ==
    channels # 0 => Len(filters) = channels /\ Len(compressors) = channels

\* C7: a sample of a channel without filter or compressor state is never
\* processed into an output; the audio thread aborts instead.
C7_MissingStateIsFatal ==
    (slot.ch # 0 /\ ~(slot.has_filters /\ slot.has_compressors)) => panicked

\* C8: the stored peak meter value is a linear amplitude, at least 0.
C8_MeterNonNegative == peak_meter >= 0

\* a step that is the end of a block
IsBlockEnd == pc = "samples" /\ pc' = "idle"

\* stored*decay_weight + block_peak*(1 - decay_weight)
RefDecay(stored, peak, weight) ==
    (stored * weight) \div WeightScale + (peak * (WeightScale - weight)) \div WeightScale

\* C9, as stated: at the end of a block with the editor open the meter takes
\* the block peak when the peak exceeds it, else the weighted mean; and a
\* silent block after initialize strictly lowers a meter that did not take
\* the peak, never below the peak.
C9_AttackElseStrictDecay ==
    [][(IsBlockEnd /\ editor_open)
       => /\ peak_meter' = IF peak_amplitude > peak_meter THEN peak_amplitude
                           ELSE RefDecay(peak_meter, peak_amplitude,
                                         peak_meter_decay_weight)
          /\ (channels # 0 /\ peak_amplitude = 0 /\ ~(peak_amplitude > peak_meter))
               => peak_meter' < peak_meter /\ peak_meter' >= peak_amplitude]_vars

\* C9, amended: the same update; a silent block after initialize strictly
\* lowers a meter that is above the peak, never below the peak, and leaves a
\* meter that equals the peak where it is.
C9_AttackElseDecay ==
    [][(IsBlockEnd /\ editor_open)
       => /\ peak_meter' = IF peak_amplitude > peak_meter THEN peak_amplitude
                           ELSE RefDecay(peak_meter, peak_amplitude,
                                         peak_meter_decay_weight)
          /\ (channels # 0 /\ peak_amplitude = 0 /\ peak_meter > peak_amplitude)
               => peak_meter' < peak_meter /\ peak_meter' >= peak_amplitude
          /\ (peak_amplitude = 0 /\ peak_meter = peak_amplitude)
               => peak_meter' = peak_meter]_vars

\* a silent block after initialize decayed a meter that is still above zero
C9_Witness ==
    /\ channels # 0
    /\ meter_event.kind = "decay" /\ meter_event.silent
    /\ peak_meter > 0
    /\ peak_meter_decay_weight < WeightScale

\* C10: the meter changes only in the step that ends a block, only with the
\* editor open, and a block stores to it at most once; with the editor closed
\* the end of a block leaves it as it was.
C10_MeterOnlyAtEndWithEditor ==
    [][/\ peak_meter' # peak_meter => IsBlockEnd /\ editor_open
       /\ meter_writes' <= 1
       /\ (IsBlockEnd /\ ~editor_open)
            => peak_meter' = peak_meter /\ meter_writes' = 0]_vars

\* a block with a non-zero peak ended with the editor closed
C10_Witness ==
    /\ meter_event.kind = "skipped" /\ ~meter_event.silent
    /\ ~editor_open
    /\ meter_writes = 0

\* a step that is the store of the split meter update
IsMeterStore == pc = "meter" /\ pc' = "idle"

\* the accesses to the meter: only the store of the audio thread changes it,
\* the store finds the meter as the load of the same block left it and is the
\* block's only store, and the editor's view loads the current value, which
\* is the initial value or one the audio thread stored, and changes nothing
\* of the engine
MeterAccessStep ==
    /\ peak_meter' # peak_meter => IsMeterStore
    /\ IsMeterStore
         => /\ peak_meter = meter_loaded
            /\ peak_meter' = NewPeakMeter(peak_meter, peak_amplitude,
                                          peak_meter_decay_weight)
            /\ meter_writes' = 1
            /\ peak_meter' \in meter_history'
    /\ ui_peak' # ui_peak
         => /\ ui_peak'.value = peak_meter
            /\ UNCHANGED <<engine, audio, peak_meter>>
    /\ ui_peak'.valid
         => ui_peak'.value \in {(MINUS_INFINITY_DB \div DbScale) * AmpScale}
                               \cup meter_history'

\* C11, as stated: the meter is the only state one thread writes and the
\* other reads (so nothing else the audio thread reads ever changes under
\* it), the audio thread is its single writer with one load and one store
\* per block, no update is lost and the editor reads the initial value or a
\* stored one.
C11_MeterOnlySharedState ==
    [][MeterAccessStep /\ UNCHANGED <<xover_lo_mid, xover_mid_hi, editor_open>>]_vars

\* C11, amended: the audio thread is the single writer of the meter with one
\* load and one store per block, no update is lost and the editor reads the
\* initial value or a stored one; the parameter values and the editor's open
\* flag are shared as well.
C11_SingleWriterMeter == [][MeterAccessStep]_vars

\* the editor loaded a value the audio thread had stored, between the load
\* and the store of a block that is not silent
C11_Witness ==
    /\ pc = "meter"
    /\ ui_peak.valid /\ ui_peak.value \in meter_history
    /\ ui_peak.value = peak_meter /\ meter_loaded = peak_meter
    /\ peak_amplitude > peak_meter

\* C12: an operation that sets the coefficients, and any step in which a
\* coefficient changes, leaves z1 = z2 = 0, whatever the memory before it.
C12_DesignResetsMemory ==
    [][(\/ bq_io'.op \in {"lowpass", "highpass"} /\ bq_steps' # bq_steps
        \/ Coefs(bq') # Coefs(bq))
       => bq'.z1 = 0 /\ bq'.z2 = 0]_vars

\* a Biquad that held memory from processed samples was redesigned
C12_Witness ==
    /\ bq_io.op \in {"lowpass", "highpass"}
    /\ bq_io.dirty
    /\ Coefs(bq) # Coefs(BiquadNew)

\* C13: while the Biquad has the coefficients of Biquad::new every sample
\* comes out as it went in and z1, z2 stay zero.
C13_DefaultBiquadIsIdentity ==
    bq_io.fresh => /\ bq.z1 = 0
                   /\ bq.z2 = 0
                   /\ (bq_io.op = "sample" => bq_io.y = bq_io.x)

\* the third sample through a default Biquad, not a silent one
C13_Witness ==
    /\ bq_io.fresh /\ bq_io.op = "sample"
    /\ bq_steps >= 3
    /\ bq_io.x # 0 /\ bq_io.y = bq_io.x

\* C14: gain_reduction_db of a compressor is never positive.
C14_GainReductionNotPositive == band_comp.gain_reduction_db <= 0

\* a compressor that is reducing the gain
C14_Witness ==
    /\ comp_io.run > 0
    /\ band_comp.gain_reduction_db < 0
    /\ band_comp.envelope > comp_settings.threshold_db

\* envelopes and thresholds from silence to above full scale, in dB
LevelsDb == {MINUS_INFINITY_DB, -6000, -3612, -1200, -1, 0, 600}

\* C15: with ratio 1 the target reduction is 0 for every envelope and
\* threshold; a compressor run with ratio 1 since its creation keeps
\* gain_reduction_db = 0 and its output is the input times the makeup gain.
C15_UnityRatioIsMakeupOnly ==
    (comp_settings # NoSettings /\ comp_settings.ratio = RatioScale)
    => /\ \A e \in LevelsDb \cup {band_comp.envelope}, t \in LevelsDb :
            TargetReduction(e, [comp_settings EXCEPT !.threshold_db = t]) = 0
       /\ band_comp.gain_reduction_db = 0
       /\ comp_io.run > 0
          => comp_io.out = MulDiv(comp_io.input,
                                  db_to_gain(comp_settings.makeup_db), AmpScale)

\* ratio 1, the envelope above the threshold, a full-scale sample amplified
C15_Witness ==
    /\ comp_settings # NoSettings
    /\ comp_settings.ratio = RatioScale
    /\ band_comp.envelope > comp_settings.threshold_db
    /\ comp_io.changes > 0
    /\ comp_io.input = AmpScale
    /\ comp_io.out > AmpScale

\* one step of the 0.01 dB grid the levels are kept on, and of the sample grid
DbGrid == DbScale \div 100
AmpGrid == AmpScale \div 1024
\* samples at one level after which the compressor counts as settled
SettleRun == MaxRun - 2

\* input * db_to_gain(makeup_db)
MakeupOnly(input, cs) == MulDiv(input, db_to_gain(cs.makeup_db), AmpScale)

\* comp.process_sample(input, &settings) has just run
IsCompressorSample == comp_io' # comp_io /\ comp_io'.run > 0

CompressorQuietStep ==
    LET s == comp_settings
        gr == band_comp.gain_reduction_db
        gr_next == band_comp'.gain_reduction_db
    IN  /\ band_comp'.envelope <= s.threshold_db
           => /\ TargetReduction(band_comp'.envelope, s) = 0
              /\ gr <= gr_next
              /\ gr_next <= 0
              /\ gr < -DbGrid => gr < gr_next
        /\ (InputDb(comp_io'.input) < s.threshold_db
            /\ band_comp.envelope <= s.threshold_db)
           => band_comp'.envelope <= s.threshold_db
        /\ ~comp_io'.above
           => /\ gr_next = 0
              /\ comp_io'.out = MakeupOnly(comp_io'.input, s)
        /\ (InputDb(comp_io'.input) < s.threshold_db /\ comp_io'.run >= SettleRun)
           => /\ band_comp'.envelope <= s.threshold_db
              /\ gr_next >= -DbGrid
              /\ Abs(comp_io'.out - MakeupOnly(comp_io'.input, s)) <= AmpGrid

\* C16: in a sample that leaves the envelope at or below the threshold the
\* target reduction is 0 and gain_reduction_db moves toward 0 without passing
\* it; it is exactly 0, and the output exactly input * db_to_gain(makeup_db),
\* while the envelope has never exceeded the threshold; an input held below
\* the threshold brings the envelope below it and the applied gain to the
\* makeup gain, whatever the ratio.
C16_BelowThresholdMakeupOnly == [][IsCompressorSample => CompressorQuietStep]_vars

\* a compressor whose envelope had been above the threshold, settled on a
\* quiet input: no reduction left, the output the input times the makeup gain
C16_Witness ==
    /\ comp_io.above
    /\ comp_io.run >= SettleRun
    /\ comp_io.input # 0
    /\ InputDb(comp_io.input) < comp_settings.threshold_db
    /\ comp_settings.ratio > RatioScale
    /\ band_comp.gain_reduction_db >= -DbGrid
    /\ comp_io.out = MakeupOnly(comp_io.input, comp_settings)

\* the settings with threshold -12 dB, ratio 4 and no makeup
ReferenceSettings ==
    {s \in BenchSettings :
        s.threshold_db = -12 * DbScale /\ s.ratio = 4 * RatioScale /\ s.makeup_db = 0}

\* envelope 0 dB, gain_reduction_db -9 dB
SteadyState == [envelope |-> 0, gain_reduction_db |-> -9 * DbScale]

\* the compressor c and its output for a 0 dB input are at the steady state,
\* to two steps of the grid
AtSteadyState(c, out) ==
    /\ Abs(c.envelope - SteadyState.envelope) <= 2 * DbGrid
    /\ Abs(c.gain_reduction_db - SteadyState.gain_reduction_db) <= 2 * DbGrid
    /\ Abs(out - MulDiv(AmpScale, db_to_gain(SteadyState.gain_reduction_db), AmpScale))
         <= 2 * AmpGrid

\* C17: with threshold -12 dB, ratio 4 and no makeup, envelope 0 dB and
\* gain_reduction_db -9 dB is a fixed point of process_sample for a 0 dB
\* input, and a fresh compressor fed a constant 0 dB input settles there,
\* its output the input at -9 dB.
C17_SteadyStateNineDb ==
    /\ \A s \in ReferenceSettings :
         LET r == compressor_process_sample(SteadyState, AmpScale, s)
         IN  r.c = SteadyState /\ AtSteadyState(r.c, r.out)
    /\ (/\ comp_settings \in ReferenceSettings
        /\ comp_io.changes = 0
        /\ comp_io.input = AmpScale
        /\ comp_io.run >= SettleRun)
       => AtSteadyState(band_comp, comp_io.out)

\* the reference compressor after a settled run of 0 dB samples from fresh
C17_Witness ==
    /\ comp_settings \in ReferenceSettings
    /\ comp_io.changes = 0
    /\ comp_io.input = AmpScale
    /\ comp_io.run = MaxRun
    /\ band_comp.gain_reduction_db < -8 * DbScale
    /\ comp_io.out < AmpScale \div 2

\* an iteration of the per-sample loop
IsSampleStep == pc = "samples" /\ pc' = "samples" /\ slot' # NoSlot /\ filters' # <<>>
                /\ (frames' # frames \/ ch_idx' # ch_idx \/ slot' # slot
                    \/ filters' # filters \/ compressors' # compressors)

\* the banks and the two outputs after a sample x1 of channel 1 and a sample
\* x2 of channel 2, in this order and in the other
BothOrders(x1, x2) ==
    LET a == ProcessSlot(filters, compressors, 1, x1, settings)
        ab == ProcessSlot(a.filters, a.compressors, 2, x2, settings)
        b == ProcessSlot(filters, compressors, 2, x2, settings)
        ba == ProcessSlot(b.filters, b.compressors, 1, x1, settings)
    IN  [first |-> <<ab.filters, ab.compressors, a.out, ab.out>>,
         second |-> <<ba.filters, ba.compressors, ba.out, b.out>>]

BankCoefs(flt) ==
    [ch \in DOMAIN flt |->
        [k \in {"low_lp", "mid_hp", "mid_lp", "high_hp"} |->
            [i \in 1..2 |-> Coefs(flt[ch][k][i])]]]

\* C19: a block calls the frequency-update policy in the step that begins
\* it, on the frequencies requested at that moment and before any sample of
\* the block is processed; from then to the end of the block no step changes
\* a Biquad coefficient, a cached crossover frequency or the record of the
\* last call, whatever happens to the requested frequencies.
C19_UpdateOncePerBlock ==
    [][/\ IsBlockBegin
          => /\ pc = "idle" /\ pc' = "samples"
             /\ slot' = NoSlot
             /\ last_call'.valid /\ ~last_call'.in_initialize
             /\ <<last_call'.lo_mid, last_call'.mid_hi>> = <<xover_lo_mid, xover_mid_hi>>
             /\ filters' = update_crossovers(xover_lo_mid, xover_mid_hi, current_lo_mid,
                                             current_mid_hi, sample_rate, filters).filters
       /\ pc = "samples"
          => /\ ~IsBlockBegin
             /\ BankCoefs(filters') = BankCoefs(filters)
             /\ UNCHANGED <<current_lo_mid, current_mid_hi, last_call, applied>>]_vars

\* a sample was processed after the requested frequency had moved by more
\* than the hysteresis during the block: the cache and the filters are still
\* those of the beginning of the block
C19_Witness ==
    /\ pc = "samples"
    /\ slot.ch # 0 /\ slot.has_filters
    /\ ~panicked
    /\ ExceedsHysteresis(xover_lo_mid, current_lo_mid)
    /\ last_call.valid /\ ~last_call.in_initialize
    /\ last_call.lo_mid # xover_lo_mid
    /\ HasFilterMemory

\* one sample x through the filters f and the compressors c of a channel under
\* the settings s, section by section: every Biquad and every compressor
\* stepped once
SampleBySections(f, c, x, s) ==
    LET low1 == biquad_process_sample(f.low_lp[1], x)
        low2 == biquad_process_sample(f.low_lp[2], low1.y)
        high1 == biquad_process_sample(f.high_hp[1], x)
        high2 == biquad_process_sample(f.high_hp[2], high1.y)
        mid1 == biquad_process_sample(f.mid_hp[1], x)
        mid2 == biquad_process_sample(f.mid_hp[2], mid1.y)
        mid3 == biquad_process_sample(f.mid_lp[1], mid2.y)
        mid4 == biquad_process_sample(f.mid_lp[2], mid3.y)
        low_out == compressor_process_sample(c[1], low2.y, s[1])
        mid_out == compressor_process_sample(c[2], mid4.y, s[2])
        high_out == compressor_process_sample(c[3], high2.y, s[3])
    IN  [filters |-> [low_lp |-> <<low1.bq, low2.bq>>, mid_hp |-> <<mid1.bq, mid2.bq>>,
                      mid_lp |-> <<mid3.bq, mid4.bq>>, high_hp |-> <<high1.bq, high2.bq>>],
         bands |-> <<low_out.c, mid_out.c, high_out.c>>,
         out |-> low_out.out + mid_out.out + high_out.out]

\* C20: an iteration of the loop on an allocated channel steps each of the
\* channel's 8 Biquads and 3 compressors once: low through the low_lp
\* sections, high through the high_hp sections, mid through the mid_hp and
\* then the mid_lp sections, band i compressed by compressor i under the
\* settings of band i, and the sample becomes the sum of the three compressed
\* bands; the same holds for the sample after it, on the state this one left.
C20_SampleBySections ==
    [][(IsSampleStep /\ slot'.has_filters /\ slot'.has_compressors)
       => LET ch == ch_idx
              this == SampleBySections(filters[ch], compressors[ch], slot'.input, settings)
          IN  /\ filters'[ch] = this.filters
              /\ compressors'[ch] = this.bands
              /\ slot'.out = this.out
              /\ \A x \in SampleValues :
                   LET r == ProcessSlot(filters', compressors', ch, x, settings)
                       next == SampleBySections(filters'[ch], compressors'[ch], x, settings)
                   IN  /\ r.filters[ch] = next.filters
                       /\ r.compressors[ch] = next.bands
                       /\ r.out = next.out]_vars

\* a sample of an allocated channel came out changed, with memory left in the
\* last section of the mid band and an envelope raised in every band
C20_Witness ==
    /\ slot.ch # 0
    /\ slot.has_filters /\ slot.has_compressors
    /\ slot.input # 0
    /\ slot.out # slot.input
    /\ filters[slot.ch].mid_lp[2].z1 # 0
    /\ \A b \in 1..3 : compressors[slot.ch][b].envelope > MINUS_INFINITY_DB

\* the coefficient of a time of 0.1 ms at the sample rate sr
FloorCoef(sr) == ExpNeg(TimeScale, sr)

\* the settings cs have a ratio of at least 1 and times of at least 0.1 ms
SettingsClamped(cs, sr) ==
    /\ cs.ratio >= RatioScale
    /\ cs.attack_coef >= FloorCoef(sr) /\ cs.attack_coef < CoefScale
    /\ cs.release_coef >= FloorCoef(sr) /\ cs.release_coef < CoefScale

\* C21: the settings a block begins with have, in every band, a ratio of at
\* least 1 and attack and release coefficients of times of at least 0.1 ms,
\* whatever the parameters hold; the snapshot stays as it is until the block
\* ends, and every sample of the block is compressed under it.
C21_SettingsClampedAndFixed ==
    [][/\ IsBlockBegin
          => \A b \in 1..3 : SettingsClamped(settings'[b], sample_rate)
       /\ (pc = "samples" /\ pc' = "samples") => settings' = settings
       /\ (IsSampleStep /\ slot'.has_compressors)
          => compressors'[ch_idx]
               = SampleBySections(filters[ch_idx], compressors[ch_idx], slot'.input,
                                  settings).bands]_vars

\* a sample compressed under the snapshot of out-of-range parameters
C21_Witness ==
    /\ pc = "samples"
    /\ slot.ch = 2 /\ slot.has_compressors
    /\ slot.input # 0
    /\ settings[1].threshold_db = BandOutOfRange[1].threshold
    /\ \A b \in 1..3 : settings[b].ratio = RatioScale
                       /\ settings[b].attack_coef = FloorCoef(sample_rate)
                       /\ settings[b].release_coef = FloorCoef(sample_rate)

\* C22, as stated: neither initialize nor process ever aborts.
C22_NeverAborts == ~panicked

\* the sample rate is below 2000/19 Hz (about 105.3 Hz): 0.4*sample_rate + 10
\* exceeds 0.495*sample_rate, the bounds of the second clamp can cross
RateBelowClampRange(sr) == 19 * sr < 2000

\* C22: initialize and process abort only at a sample rate below about
\* 105.3 Hz; at every other rate, for every request, layout and block, they
\* run to their end.
C22_AbortsOnlyBelowClampRange == panicked => RateBelowClampRange(sample_rate)

\* at an ordinary rate the engine was initialized and a block of samples ran
\* to its end under requests far above Nyquist
C22_Witness ==
    /\ ~panicked
    /\ ~RateBelowClampRange(sample_rate)
    /\ pc = "idle" /\ blocks >= 1 /\ frames >= 1
    /\ last_call.valid /\ ~last_call.in_initialize
    /\ last_call.lo_mid > (sample_rate * FreqScale) \div 2
    /\ meter_event.kind = "skipped"

\* C23: from the return of initialize to the beginning of the next block
\* both banks have their two entries, every band compressor is as
\* BandCompressor::new() leaves it and every Biquad has z1 = z2 = 0.
C23_InitializeRebuildsBanks ==
    (last_call.valid /\ last_call.in_initialize)
    => /\ Len(filters) = 2 /\ Len(compressors) = 2
       /\ \A c \in 1..2, b \in 1..3 : compressors[c][b] = SingleBandCompressorNew
       /\ ~HasFilterMemory

\* initialize has returned after a block whose peak came out of the filters
\* and compressors (it is none of the input amplitudes), with the editor open
C23_Witness ==
    /\ last_call.valid /\ last_call.in_initialize
    /\ frames >= 1
    /\ meter_event.kind = "attack"
    /\ peak_meter > 0
    /\ peak_meter \notin {Abs(x) : x \in SampleValues}
    /\ ~HasFilterMemory

\* C24: a call of update_crossovers that recomputes leaves every channel
\* with the 8 Biquads designed for the clamped cache and no filter memory;
\* when only the mid/high frequency moved by more than 0.5 Hz the low_lp and
\* mid_hp sections keep their coefficients and lose their memory with the
\* rest.
C24_RecomputationResetsAll ==
    [][(IsBlockBegin /\ last_call'.needs_update /\ ~panicked')
       => /\ ~HasFilterMemory'
          /\ \A ch \in DOMAIN filters :
               /\ filters'[ch] = DesignedFilters(LowFreq(current_lo_mid', sample_rate),
                                                 HighFreq(current_mid_hi',
                                                          LowFreq(current_lo_mid', sample_rate),
                                                          sample_rate),
                                                 sample_rate)
               /\ (~ExceedsHysteresis(xover_lo_mid, current_lo_mid)
                   /\ BankCoefs(filters)[ch].low_lp # <<Coefs(BiquadNew), Coefs(BiquadNew)>>)
                  => /\ BankCoefs(filters')[ch].low_lp = BankCoefs(filters)[ch].low_lp
                     /\ BankCoefs(filters')[ch].mid_hp = BankCoefs(filters)[ch].mid_hp]_vars

\* a block began with the low/mid request within 0.5 Hz of its cache and the
\* mid/high request far from its own, on banks that had processed samples
\* (the envelopes have left the floor): no Biquad holds memory
C24_Witness ==
    /\ pc = "samples" /\ slot = NoSlot
    /\ last_call.valid /\ ~last_call.in_initialize /\ last_call.needs_update
    /\ last_call.lo_mid # current_lo_mid
    /\ last_call.mid_hi = current_mid_hi
    /\ Len(compressors) = 2
    /\ \E b \in 1..3 : compressors[1][b].envelope > MINUS_INFINITY_DB
    /\ ~HasFilterMemory

\* C25: process_sample smooths gain_reduction_db toward the target of the
\* new envelope with attack_coef when that target is below the reduction it
\* starts from and with release_coef otherwise; the envelope takes attack_coef
\* when the input level is above it, release_coef otherwise, and the two
\* choices are made apart.
C25_GainCoefficientByDirection ==
    [][IsCompressorSample
       => LET s == comp_settings
              level == InputDb(comp_io'.input)
              target == TargetReduction(band_comp'.envelope, s)
              gr == band_comp.gain_reduction_db
          IN  /\ band_comp'.envelope
                   = Smooth(band_comp.envelope, level,
                            IF level > band_comp.envelope THEN s.attack_coef
                            ELSE s.release_coef)
              /\ band_comp'.gain_reduction_db
                   = Smooth(gr, target,
                            IF target < gr THEN s.attack_coef ELSE s.release_coef)]_vars

\* the envelope rose with attack_coef while the reduction recovered with
\* release_coef in the same sample, the two coefficients being different
C25_Witness ==
    /\ comp_io.run > 0
    /\ comp_io.rising /\ ~comp_io.deepening
    /\ InputDb(comp_io.input) < comp_settings.threshold_db
    /\ comp_settings.attack_coef # comp_settings.release_coef
    /\ band_comp.gain_reduction_db < -DbGrid

\* what initialize sizes and sets: the lengths of the two banks, the sample
\* rate and the decay weight of the meter
Sized == <<Len(filters), Len(compressors), sample_rate, peak_meter_decay_weight>>

\* C26: no step of process (the beginning of a block, a sample, the end of a
\* block) changes the length of a bank, the stored sample rate or the decay
\* weight; a step that changes one of them is a call of initialize.
C26_ProcessKeepsSizes ==
    [][/\ (IsBlockBegin \/ pc = "samples") => Sized' = Sized
       /\ Sized' # Sized
          => /\ pc = "idle" /\ pc' = "idle"
             /\ last_call'.valid /\ last_call'.in_initialize]_vars

\* a block of samples has run on banks that initialize sized at a sample rate
\* other than the default one, and has left memory in them
C26_Witness ==
    /\ pc = "idle" /\ blocks >= 1 /\ frames >= 1
    /\ Sized = <<2, 2, 8000, DecayWeight(8000)>>
    /\ sample_rate # DefaultSampleRate
    /\ HasFilterMemory

\* the output out has the sign of the input or is zero, and is zero for a
\* zero input
SignKept(input, out) ==
    /\ input = 0 => out = 0
    /\ input > 0 => out >= 0
    /\ input < 0 => out <= 0

\* C27: the gain process_sample applies is never negative: the output of
\* every sample is zero for a zero input and never of the opposite sign,
\* from the state the compressor is in and from any envelope and reduction.
C27_OutputKeepsSign ==
    /\ comp_io.run > 0 => SignKept(comp_io.input, comp_io.out)
    /\ comp_settings # NoSettings
       => db_to_gain(band_comp.gain_reduction_db + comp_settings.makeup_db) >= 0
    /\ (comp_settings # NoSettings /\ comp_io.run = 0)
       => \A e \in LevelsDb, g \in LevelsDb, x \in CompressorInputs :
            g <= 0 =>
              SignKept(x, compressor_process_sample(
                              [envelope |-> e, gain_reduction_db |-> g],
                              x, comp_settings).out)

\* an inverted sample came out inverted and reduced by more than 20 dB
C27_Witness ==
    /\ comp_io.run > 0
    /\ comp_io.input < 0
    /\ comp_io.out < 0
    /\ comp_io.out > comp_io.input
    /\ band_comp.gain_reduction_db + comp_settings.makeup_db < -20 * DbScale

\* the cache is within 0.5 Hz of the requests of the last call
CacheNearLastCall ==
    last_call.valid
    => /\ Abs(last_call.lo_mid - current_lo_mid) <= HysteresisHz
       /\ Abs(last_call.mid_hi - current_mid_hi) <= HysteresisHz

\* C28: after every call of update_crossovers each cached frequency is at
\* most 0.5 Hz from the request of that call, and it is the request when the
\* request was more than 0.5 Hz from the cache the call met; between calls
\* the cache does not move.
C28_CacheTracksRequest ==
    [][/\ CacheNearLastCall'
       /\ IsBlockBegin
          => /\ <<last_call'.lo_mid, last_call'.mid_hi>> = <<xover_lo_mid, xover_mid_hi>>
             /\ Abs(xover_lo_mid - current_lo_mid) > HysteresisHz
                => current_lo_mid' = xover_lo_mid
             /\ Abs(xover_mid_hi - current_mid_hi) > HysteresisHz
                => current_mid_hi' = xover_mid_hi
       /\ last_call' = last_call
          => UNCHANGED <<current_lo_mid, current_mid_hi>>]_vars

\* two requests in a row moved by at most 0.5 Hz each: the first call kept
\* the cache, the second found its request more than 0.5 Hz from the cache
\* and stored it
C28_Witness ==
    /\ last_call.valid /\ ~last_call.in_initialize
    /\ last_call.near_previous /\ last_call.moved /\ ~last_call.on_cache
    /\ last_call.needs_update
    /\ current_lo_mid = last_call.lo_mid
    /\ current_mid_hi = last_call.mid_hi

\* what the rounding of the two products of a smoothing step can add up to
RoundingSlack == 2 * DbGrid

\* C29: after each sample the envelope lies between the envelope before it
\* and the level of the sample, both included, up to the rounding of the
\* step; it never rises above the highest level seen and never falls below
\* the floor it started from.
C29_EnvelopeBetween ==
    [][IsCompressorSample
       => LET level == InputDb(comp_io'.input)
              lower == Min(band_comp.envelope, level)
              upper == Max(band_comp.envelope, level)
          IN  /\ lower - RoundingSlack <= band_comp'.envelope
              /\ band_comp'.envelope <= upper
              /\ band_comp'.envelope <= comp_io'.loudest
              /\ band_comp'.envelope >= MINUS_INFINITY_DB - RoundingSlack]_vars

\* the envelope on its way down from 0 dB to a quieter input, strictly
\* between the two
C29_Witness ==
    /\ comp_io.run > 0 /\ comp_io.changes > 0
    /\ ~comp_io.rising
    /\ comp_io.input # 0
    /\ InputDb(comp_io.input) + RoundingSlack < band_comp.envelope
    /\ band_comp.envelope + RoundingSlack < comp_io.loudest

\* what process reads and writes on the audio path of an engine: the sample
\* rate, the banks, the frequency cache and the samples written back
AudioOf(e) ==
    <<e.sample_rate, e.filters, e.compressors, e.current_lo_mid, e.current_mid_hi, e.out>>

\* C30: two engines that start with the same filter and compressor state and
\* are initialized and handed the same blocks under the same parameter
\* values write the same output samples and keep the same filter and
\* compressor state, whatever their editors and their peak meters are.
C30_MeterDoesNotReachAudio == AudioOf(twin.left) = AudioOf(twin.right)

\* after two blocks one editor is open and the other closed, the meters
\* differ, and the engines have written a sample other than zero through
\* filters with memory and compressors off their floor
C30_Witness ==
    /\ twin.blocks >= 2
    /\ twin.left.editor_open # twin.right.editor_open
    /\ twin.left.peak_meter # twin.right.peak_meter
    /\ twin.left.out # <<>> /\ twin.left.out[1] # 0
    /\ twin.left.filters # <<>>
    /\ \E k \in {"low_lp", "mid_hp", "mid_lp", "high_hp"}, i \in 1..2 :
         twin.left.filters[1][k][i].z1 # 0
    /\ twin.left.compressors # <<>>
    /\ \E b \in 1..3 : twin.left.compressors[1][b].envelope > MINUS_INFINITY_DB

====
